---- MODULE Spec2Model ----
(***************************************************************************)
(* Model of zever-2-pvoutput.py: a script that polls a solar inverter's   *)
(* status page during daylight, appends each reading to a local CSV log   *)
(* and uploads it to PVOutput.                                             *)
(*                                                                         *)
(* Python strings are modelled as sequences of one-character strings so   *)
(* that split('.'), int() and float() are computed, not assumed.           *)
(***************************************************************************)
EXTENDS Integers, Sequences, FiniteSets, TLC

(***************************************************************************)
(* Strings and numbers                                                     *)
(***************************************************************************)

Digit == {"0", "1", "2", "3", "4", "5", "6", "7", "8", "9"}

DigitVal(ch) ==
    CASE ch = "0" -> 0 [] ch = "1" -> 1 [] ch = "2" -> 2 [] ch = "3" -> 3
      [] ch = "4" -> 4 [] ch = "5" -> 5 [] ch = "6" -> 6 [] ch = "7" -> 7
      [] ch = "8" -> 8 [] ch = "9" -> 9

IsDigits(s) == \A i \in 1..Len(s) : s[i] \in Digit

RECURSIVE DigitsVal(_)
DigitsVal(s) ==
    IF Len(s) = 0 THEN 0
    ELSE 10 * DigitsVal(SubSeq(s, 1, Len(s) - 1)) + DigitVal(s[Len(s)])

RECURSIVE Pow(_, _)
Pow(base, e) == IF e = 0 THEN 1 ELSE base * Pow(base, e - 1)

RECURSIVE PowMod(_, _, _)
PowMod(base, e, m) == IF e = 0 THEN 1 % m ELSE (base * PowMod(base, e - 1, m)) % m

\* str.split(sep) for a one-character separator: always at least one part.
RECURSIVE split(_, _)
split(s, sep) ==
    IF \A i \in 1..Len(s) : s[i] # sep THEN <<s>>
    ELSE LET p == CHOOSE i \in 1..Len(s) :
                      s[i] = sep /\ \A j \in 1..(i - 1) : s[j] # sep
         IN  <<SubSeq(s, 1, p - 1)>> \o split(SubSeq(s, p + 1, Len(s)), sep)

\* int(s) on text made of digits, '-' and letters: an optional sign followed
\* by at least one digit, anything else raises ValueError.
PyInt(s) ==
    IF Len(s) >= 1 /\ IsDigits(s)
      THEN [ok |-> TRUE, val |-> DigitsVal(s)]
    ELSE IF Len(s) >= 2 /\ s[1] = "-" /\ IsDigits(Tail(s))
      THEN [ok |-> TRUE, val |-> 0 - DigitsVal(Tail(s))]
    ELSE [ok |-> FALSE, val |-> 0]

\* float(s) on text made of digits, '.', letters and a '-' that is not in
\* front: digits with at most one point and at least one digit.  The value
\* is the decimal num / 10^frac, kept exact here; the rounding to a binary64
\* happens in FloatTimes1000.
PyFloat(s) ==
    LET parts == split(s, ".")
    IN  IF Len(parts) = 1 /\ Len(s) >= 1 /\ IsDigits(s)
          THEN [ok |-> TRUE, num |-> DigitsVal(s), frac |-> 0]
        ELSE IF /\ Len(parts) = 2
                /\ IsDigits(parts[1]) /\ IsDigits(parts[2])
                /\ Len(parts[1]) + Len(parts[2]) >= 1
          THEN [ok |-> TRUE, num |-> DigitsVal(parts[1] \o parts[2]),
                frac |-> Len(parts[2])]
        ELSE [ok |-> FALSE, num |-> 0, frac |-> 0]

\* Largest b with 2^b <= num / 10^frac, for num > 0 (b is negative below 1).
RECURSIVE BinadeUp(_, _, _)
BinadeUp(num, den, b) ==
    IF Pow(2, b + 1) * den <= num THEN BinadeUp(num, den, b + 1) ELSE b

RECURSIVE BinadeDown(_, _, _)
BinadeDown(num, den, b) ==
    IF num * Pow(2, b) < den THEN BinadeDown(num, den, b + 1) ELSE 0 - b

Binade(num, den) ==
    IF num >= den THEN BinadeUp(num, den, 0) ELSE BinadeDown(num, den, 1)

\* int(float(kwh) * 1000) for kwh = num / 10^frac, 1 <= frac <= 4, in IEEE 754
\* binary64 with round-to-nearest-even, computed in integers.  float(kwh) is
\* the double nearest the decimal: in units of its last place it lies
\* r / 10^frac below the decimal (when that is under one half) or above it,
\* r being num * 2^(52 - b) modulo 10^frac.  The product with 1000 is rounded
\* again; it lands on the double below the exact integer product prod exactly
\* when the first rounding was downwards by more than half the gap under
\* prod, and int() then truncates to prod - 1.
FloatTimes1000(num, frac) ==
    LET den   == Pow(10, frac)
        exact == (num * 1000) \div den
        whole == (num * 1000) % den = 0
    IN  IF num = 0 \/ ~whole THEN exact
        ELSE LET b    == Binade(num, den)
                 c    == Binade(exact, 1)
                 r    == ((num % den) * PowMod(2, 52 - b, den)) % den
                 gap  == IF exact > Pow(2, c) THEN Pow(2, c - b)
                                              ELSE Pow(2, c - b - 1)
                 down == 2 * r < den
             IN  IF down /\ 2000 * r > gap * den THEN exact - 1 ELSE exact

(***************************************************************************)
(* correct_E_Today: insert the missing leading zero, convert kWh to Wh     *)
(***************************************************************************)

\* Result of a call: exc is "none" or the exception raised; watts is
\* int(float(kwh) * 1000) and kwh the text that was converted.
correct_E_Today(kwh) ==
    LET parts == split(kwh, ".")
    IN  IF Len(parts) < 2
          THEN [exc |-> "IndexError", watts |-> 0, kwh |-> kwh]
        ELSE LET f == PyInt(parts[2])
             IN  IF ~f.ok
                   THEN [exc |-> "ValueError", watts |-> 0, kwh |-> kwh]
                 ELSE LET fixed == IF f.val < 10
                                     THEN parts[1] \o <<".", "0">> \o parts[2]
                                     ELSE kwh
                          x     == PyFloat(fixed)
                      IN  IF ~x.ok
                            THEN [exc |-> "ValueError", watts |-> 0, kwh |-> fixed]
                          ELSE [exc |-> "none",
                                watts |-> FloatTimes1000(x.num, x.frac),
                                kwh |-> fixed]

(***************************************************************************)
(* Bounds of the model                                                     *)
(***************************************************************************)

\* Minutes in a modelled day; the clock counts seconds and wraps at DayLen.
DayMinutes == 4
\* Calendar dates distinguished before the date counter wraps.
NumDates == 2
\* Largest -interval flag, in minutes.
MaxIntervalMin == 2
\* Data rows the log's disk has room for; a write to a full disk fails with
\* OSError.
MaxRows == 1

DayLen == DayMinutes * 60
Times == {m * 60 : m \in 0..(DayMinutes - 1)}

(***************************************************************************)
(* Program state                                                           *)
(***************************************************************************)

VARIABLES
    pc,               \* position in the script; "exit1" = sys.exit(1),
                      \* "crash" = uncaught exception, "blocked" = a call
                      \* that never returns
    now,              \* wall clock, seconds since local midnight
    today,            \* calendar date
    arg_interval,     \* -interval in seconds, 0 when absent
    ip,               \* "unbound", or where the address came from:
                      \* "flag" (-ip) or "config" (config.INVERTER_IP)
    request_interval, \* seconds, 0 while the name is unbound
    system_name,      \* "unbound" or the name PVOutput reported
    db,               \* the log file: [exists, rows]
    attempts,         \* transport attempts already made for the request in flight
    response,         \* response.text of the last successful inverter GET
    inverter_data,    \* the dict parse_inverter_data returned this cycle
    fetched,          \* this cycle's fetch: "none", "ok" or "failed"
    written,          \* rows appended to the log in this cycle
    posted,           \* payloads POSTed to addstatus.jsp in this cycle
    sent              \* the request last made and its latest outcome

vars == <<pc, now, today, arg_interval, ip, request_interval,
          system_name, db, attempts, response, inverter_data, fetched, written,
          posted, sent>>

(***************************************************************************)
(* daylight_hours                                                          *)
(***************************************************************************)

\* astral's sun() for a date: sunrise one minute into the day, sunset one
\* minute before its end, the same on every date.
sun(date) == [sunrise |-> 60, sunset |-> DayLen - 60]

\* A variant that lets sunrise itself count as daylight; C7 rejects it.
daylight_hours_ge(current_time, date) ==
    LET s == sun(date)
    IN  current_time >= s.sunrise /\ current_time < s.sunset

daylight_hours(current_time, date) ==
    LET s == sun(date)
    IN  current_time > s.sunrise /\ current_time < s.sunset

(***************************************************************************)
(* parse_inverter_data                                                     *)
(***************************************************************************)

NoData == [date |-> 0 - 1, time |-> 0 - 1, status |-> <<>>, PAC_W |-> 0, E_TODAY |-> 0]

\* The dict literal is evaluated in order: data[12], int(data[10]), then
\* correct_E_Today(data[11]); the first failure is the exception raised.
parse_inverter_data(text, date, t) ==
    LET data == split(text, "\n")
    IN  IF Len(data) < 13 THEN [exc |-> "IndexError", data |-> NoData]
        ELSE LET pac == PyInt(data[11])
                 e   == correct_E_Today(data[12])
             IN  IF ~pac.ok THEN [exc |-> "ValueError", data |-> NoData]
                 ELSE IF e.exc # "none" THEN [exc |-> e.exc, data |-> NoData]
                 ELSE [exc |-> "none",
                       data |-> [date |-> date, time |-> t, status |-> data[13],
                                 PAC_W |-> pac.val, E_TODAY |-> e.watts]]

(***************************************************************************)
(* log_inverter_data and the database file                                 *)
(***************************************************************************)

fieldnames == <<"date", "time", "status", "PAC_W", "E_TODAY">>

\* csv.DictWriter.writeheader(): one line naming the fields.
HeaderRow == [kind |-> "header", cells |-> fieldnames]

\* csv.DictWriter.writerow(data): the dict's values in fieldnames order.
DataRow(data) ==
    [kind |-> "row",
     cells |-> <<data.date, data.time, data.status, data.PAC_W, data.E_TODAY>>]

DiskFull(file) ==
    Cardinality({i \in 1..Len(file.rows) : file.rows[i].kind = "row"}) >= MaxRows

\* A variant that opens the file with 'w': the row replaces what the file
\* held; C19 rejects it.
log_inverter_data_truncates(file, data) ==
    [exists |-> TRUE, rows |-> <<DataRow(data)>>]

\* open(db_path, 'a') creates the file when it is missing and never writes
\* a header; writerow appends one line.
log_inverter_data(file, data) ==
    [exists |-> TRUE, rows |-> Append(file.rows, DataRow(data))]

\* open(db_path, 'x') followed by writeheader().
create_database(file) == [exists |-> TRUE, rows |-> <<HeaderRow>>]

(***************************************************************************)
(* requests_retry_session: a Session whose adapter retries                 *)
(***************************************************************************)

retries == 3
status_forcelist == {500, 502, 504}

\* Retry(total, backoff_factor, status_forcelist) leaves urllib3's other
\* settings at their defaults, among them the methods it retries on a
\* response status or a read error: the idempotent ones, POST not included.
allowed_methods == {"HEAD", "GET", "PUT", "DELETE", "OPTIONS", "TRACE"}

\* What one transport attempt can end in: a response (modelled without a
\* Retry-After header), no connection, or no answer within the timeout.
Status(code) == [kind |-> "status", status |-> code]
ConnectError == [kind |-> "connect_error", status |-> 0]
ReadError == [kind |-> "read_error", status |-> 0]
NoOutcome == [kind |-> "none", status |-> 0]

Outcomes ==
    {Status(200), Status(401), Status(404), Status(500), Status(504),
     ConnectError, ReadError}

\* Retry.is_retry(method, status_code)
is_retry(method, o) ==
    /\ o.kind = "status"
    /\ method \in allowed_methods
    /\ o.status \in status_forcelist

\* Whether the adapter's Retry object schedules another attempt after o:
\* a failure to connect always, a read error or a response status only for
\* the allowed methods.
retryable(method, o) ==
    \/ o.kind = "connect_error"
    \/ o.kind = "read_error" /\ method \in allowed_methods
    \/ is_retry(method, o)

\* made = attempts that failed before this one; total is exhausted once
\* `retries` of them have been retried.
will_retry(method, o, made) == retryable(method, o) /\ made < retries

\* A variant without raise_for_status(): an error status passes for a
\* response; C2 rejects it.
outcome_class_no_raise(method, o) ==
    IF o.kind = "connect_error" THEN "ConnectionError"
    ELSE IF o.kind = "read_error" THEN "Timeout"
    ELSE IF is_retry(method, o) THEN "RetryError"
    ELSE "ok"

\* How the finished request ends for the caller, raise_for_status() included.
outcome_class(method, o) ==
    IF o.kind = "connect_error" THEN "ConnectionError"
    ELSE IF o.kind = "read_error" THEN "Timeout"
    ELSE IF is_retry(method, o) THEN "RetryError"
    ELSE IF o.status >= 400 THEN "HTTPError"
    ELSE "ok"

\* The record of the request last made, kept until its result is consumed.
NoRequest == [method |-> "none", url |-> "none", last |-> NoOutcome, done |-> FALSE]
Request(method, url, o, done) ==
    [method |-> method, url |-> url, last |-> o, done |-> done]

(***************************************************************************)
(* Inputs: what the inverter and PVOutput may answer                       *)
(***************************************************************************)

RECURSIVE Repeat(_, _)
Repeat(ch, n) == IF n = 0 THEN <<>> ELSE <<ch>> \o Repeat(ch, n - 1)

\* A home.cgi body whose lines 10, 11 and 12 (counted from 0) are the power,
\* the energy and the status.
DeviceText(power, energy, status) ==
    Repeat("\n", 10) \o power \o <<"\n">> \o energy \o <<"\n">> \o status

StatusOK == <<"O", "K">>
StatusError == <<"E", "r", "r", "o", "r">>

GoodTexts ==
    {DeviceText(<<"8", "1", "2">>, <<"4", ".", "3">>, StatusOK),
     DeviceText(<<"0">>, <<"1", "2", ".", "7", "5">>, StatusError)}

MalformedTexts ==
    {<<"e", "r", "r", "\n", "x">>,
     DeviceText(<<"x">>, <<"4", ".", "3">>, StatusOK),
     DeviceText(<<"8", "1", "2">>, <<"1", "2">>, StatusOK)}

InverterTexts == GoodTexts \cup MalformedTexts

\* A getsystem.jsp body: the system name, then fields up to index 15, the
\* status interval followed by a three-character unit.
SystemText(name, interval) == name \o Repeat(",", 15) \o interval

SystemTexts ==
    {SystemText(<<"P", "V">>, <<"1", "m", "i", "n">>),
     SystemText(<<"P", "V">>, <<"2", "m", "i", "n">>),
     <<"P", "V", ",", "x">>}

DEFAULT_REQ_INTERVAL == 60

\* A name the script has not bound yet; reading it raises NameError.
Unbound == <<"unbound">>

\* -interval: absent (0) or a positive number of seconds.
FlagIntervals == {0} \cup {m * 60 : m \in 1..MaxIntervalMin}

(***************************************************************************)
(* Startup                                                                 *)
(***************************************************************************)

Init ==
    /\ pc = "lookup"
    /\ now \in Times
    /\ today = 0
    /\ arg_interval \in FlagIntervals
    /\ ip = "unbound"
    /\ request_interval = 0
    /\ system_name = Unbound
    /\ db \in {[exists |-> FALSE, rows |-> <<>>],
               [exists |-> TRUE, rows |-> <<HeaderRow>>]}
    /\ attempts = 0
    /\ response = <<>>
    /\ inverter_data = NoData
    /\ fetched = "none"
    /\ written = <<>>
    /\ posted = <<>>
    /\ sent = NoRequest

\* The clock after d seconds.
Elapse(d) ==
    /\ now' = (now + d) % DayLen
    /\ today' = (today + (now + d) \div DayLen) % NumDates

\* geo_info = lookup(CITY, database()); KeyError is fatal.
Lookup ==
    /\ pc = "lookup"
    /\ \E found \in BOOLEAN : pc' = IF found THEN "set_ip" ELSE "exit1"
    /\ UNCHANGED <<now, today, arg_interval, ip,
                   request_interval, system_name, db, attempts, response,
                   inverter_data, fetched, written, posted, sent>>

\* A variant without the final else: with no address from the flag or the
\* configuration it goes on to the requests; C11 rejects it.
SetIpNoExit ==
    /\ pc = "set_ip"
    /\ \E arg_ip \in BOOLEAN, config_ip \in BOOLEAN :
         ip' = IF arg_ip THEN "flag"
               ELSE IF config_ip THEN "config" ELSE "unbound"
    /\ pc' = "getsystem"
    /\ UNCHANGED <<now, today, arg_interval,
                   request_interval, system_name, db, attempts, response,
                   inverter_data, fetched, written, posted, sent>>

\* Set inverter IP: the flag, else config.INVERTER_IP, else exit.
SetIp ==
    /\ pc = "set_ip"
    /\ \E arg_ip \in BOOLEAN, config_ip \in BOOLEAN :
         /\ ip' = IF arg_ip THEN "flag"
                  ELSE IF config_ip THEN "config" ELSE "unbound"
         /\ pc' = IF arg_ip \/ config_ip THEN "getsystem" ELSE "exit1"
    /\ UNCHANGED <<now, today, arg_interval,
                   request_interval, system_name, db, attempts, response,
                   inverter_data, fetched, written, posted, sent>>

\* A variant that takes the interval from PVOutput even when -interval is
\* given; C12 rejects it.
system_info_ignores_flag(text, flag) ==
    LET data == split(text, ",")
    IN  IF Len(data) < 16
          THEN [exc |-> "IndexError", interval |-> 0, name |-> <<>>]
        ELSE LET n == PyInt(SubSeq(data[16], 1, Len(data[16]) - 3))
             IN  IF ~n.ok
                   THEN [exc |-> "ValueError", interval |-> 0, name |-> <<>>]
                 ELSE [exc |-> "none", interval |-> n.val * 60, name |-> data[1]]

\* What the else: branch of the getsystem try binds from response.text.
\* data[15] is only read when no -interval flag was given.
system_info(text, flag) ==
    LET data == split(text, ",")
    IN  IF flag # 0
          THEN [exc |-> "none", interval |-> flag, name |-> data[1]]
        ELSE IF Len(data) < 16
          THEN [exc |-> "IndexError", interval |-> 0, name |-> <<>>]
        ELSE LET n == PyInt(SubSeq(data[16], 1, Len(data[16]) - 3))
             IN  IF ~n.ok
                   THEN [exc |-> "ValueError", interval |-> 0, name |-> <<>>]
                 ELSE [exc |-> "none", interval |-> n.val * 60, name |-> data[1]]

\* One transport attempt of pvoutput_session.get(getsystem.jsp, timeout=5),
\* and, when it is the last, the try/except/else around it.
GetSystem ==
    /\ pc = "getsystem"
    /\ \E o \in Outcomes :
         IF will_retry("GET", o, attempts)
           THEN /\ attempts' = attempts + 1
                /\ sent' = Request("GET", "getsystem", o, FALSE)
                /\ UNCHANGED <<pc, request_interval, system_name>>
           ELSE /\ attempts' = 0
                /\ sent' = Request("GET", "getsystem", o, TRUE)
                /\ LET cls == outcome_class("GET", o)
                   IN  \/ /\ cls = "ok"
                          /\ \E text \in SystemTexts :
                               LET info == system_info(text, arg_interval)
                               IN  IF info.exc # "none"
                                     THEN /\ pc' = "crash"
                                          /\ UNCHANGED <<request_interval, system_name>>
                                     ELSE /\ pc' = "create_db"
                                          /\ request_interval' = info.interval
                                          /\ system_name' = info.name
                       \/ /\ cls = "HTTPError"
                          /\ pc' = IF o.status = 401 THEN "exit1" ELSE "create_db"
                          /\ UNCHANGED <<request_interval, system_name>>
                       \/ /\ cls \notin {"ok", "HTTPError"}
                          /\ pc' = "create_db"
                          /\ request_interval' = DEFAULT_REQ_INTERVAL
                          /\ UNCHANGED system_name
    /\ UNCHANGED <<now, today, arg_interval, ip, db,
                   response, inverter_data, fetched, written, posted>>

\* Create database at DB_DIR if one does not exist.  Building db_name reads
\* system_name: NameError when getsystem did not bind it.
CreateDb ==
    /\ pc = "create_db"
    /\ sent' = NoRequest
    /\ IF system_name = Unbound
         THEN pc' = "crash" /\ UNCHANGED db
         ELSE /\ pc' = "gate"
              /\ IF db.exists
                   THEN UNCHANGED db
                   ELSE \E io_ok \in BOOLEAN :
                          db' = IF io_ok THEN create_database(db) ELSE db
    /\ UNCHANGED <<now, today, arg_interval, ip,
                   request_interval, system_name, attempts, response,
                   inverter_data, fetched, written, posted>>

(***************************************************************************)
(* Main loop                                                               *)
(***************************************************************************)

\* A variant whose polling loop does not ask daylight_hours(); C14 rejects
\* it.
GateAlwaysPolls ==
    /\ pc = "gate"
    /\ pc' = "fetch"
    /\ fetched' = "none"
    /\ written' = <<>>
    /\ posted' = <<>>
    /\ inverter_data' = NoData
    /\ response' = <<>>
    /\ UNCHANGED <<now, today, arg_interval, ip,
                   request_interval, system_name, db, attempts, sent>>

\* while daylight_hours(): the head of the polling loop.  A true result
\* starts a cycle; a false one runs the loop's else: clause.
Gate ==
    /\ pc = "gate"
    /\ IF daylight_hours(now, today)
         THEN /\ pc' = "fetch"
              /\ fetched' = "none"
              /\ written' = <<>>
              /\ posted' = <<>>
              /\ inverter_data' = NoData
              /\ response' = <<>>
         ELSE /\ pc' = "idle_gate"
              /\ UNCHANGED <<fetched, written, posted, inverter_data, response>>
    /\ UNCHANGED <<now, today, arg_interval, ip,
                   request_interval, system_name, db, attempts, sent>>

\* A variant whose upload is not in the else: clause of the fetch: a failed
\* fetch goes on to the upload; C17 rejects it.
FetchThenUpload ==
    /\ pc = "fetch"
    /\ \E o \in Outcomes :
         IF will_retry("GET", o, attempts)
           THEN /\ attempts' = attempts + 1
                /\ sent' = Request("GET", "inverter", o, FALSE)
                /\ UNCHANGED <<pc, response, fetched>>
           ELSE /\ attempts' = 0
                /\ sent' = Request("GET", "inverter", o, TRUE)
                /\ IF outcome_class("GET", o) = "ok"
                     THEN /\ \E text \in InverterTexts : response' = text
                          /\ fetched' = "ok"
                          /\ pc' = "parse"
                     ELSE /\ fetched' = "failed"
                          /\ pc' = "upload"
                          /\ UNCHANGED response
    /\ UNCHANGED <<now, today, arg_interval, ip,
                   request_interval, system_name, db, inverter_data, written,
                   posted>>

\* One transport attempt of inverter_session.get(inverter_url, timeout=5)
\* and, when it is the last, the except clauses around it: every exception
\* is caught and falls through to the sleep.
Fetch ==
    /\ pc = "fetch"
    /\ \E o \in Outcomes :
         IF will_retry("GET", o, attempts)
           THEN /\ attempts' = attempts + 1
                /\ sent' = Request("GET", "inverter", o, FALSE)
                /\ UNCHANGED <<pc, response, fetched>>
           ELSE /\ attempts' = 0
                /\ sent' = Request("GET", "inverter", o, TRUE)
                /\ IF outcome_class("GET", o) = "ok"
                     THEN /\ \E text \in InverterTexts : response' = text
                          /\ fetched' = "ok"
                          /\ pc' = "parse"
                     ELSE /\ fetched' = "failed"
                          /\ pc' = "sleep"
                          /\ UNCHANGED response
    /\ UNCHANGED <<now, today, arg_interval, ip,
                   request_interval, system_name, db, inverter_data, written,
                   posted>>

\* inverter_data = parse_inverter_data(response.text), in the else: clause
\* of the try, where nothing catches what it raises.
Parse ==
    /\ pc = "parse"
    /\ LET r == parse_inverter_data(response, today, now)
       IN  \/ /\ r.exc = "none"
              /\ inverter_data' = r.data
              /\ pc' = "record"
           \/ /\ r.exc # "none"
              /\ pc' = "crash"
              /\ UNCHANGED inverter_data
    /\ sent' = NoRequest
    /\ UNCHANGED <<now, today, arg_interval, ip,
                   request_interval, system_name, db, attempts, response,
                   fetched, written, posted>>

\* A variant whose write is not inside try/except: a failed write ends the
\* process; C3 rejects it.
RecordRaises ==
    /\ pc = "record"
    /\ \E io_ok \in BOOLEAN :
         IF io_ok /\ ~DiskFull(db)
           THEN /\ db' = log_inverter_data(db, inverter_data)
                /\ written' = Append(written, DataRow(inverter_data))
                /\ pc' = "upload"
           ELSE /\ pc' = "crash"
                /\ UNCHANGED <<db, written>>
    /\ UNCHANGED <<now, today, arg_interval, ip,
                   request_interval, system_name, attempts, response,
                   inverter_data, fetched, posted, sent>>

\* log_inverter_data(inverter_data): the write is inside try/except
\* Exception, so a failed open or write only logs a warning.
Record ==
    /\ pc = "record"
    /\ \E io_ok \in BOOLEAN :
         IF io_ok /\ ~DiskFull(db)
           THEN /\ db' = log_inverter_data(db, inverter_data)
                /\ written' = Append(written, DataRow(inverter_data))
           ELSE UNCHANGED <<db, written>>
    /\ pc' = "upload"
    /\ UNCHANGED <<now, today, arg_interval, ip,
                   request_interval, system_name, attempts, response,
                   inverter_data, fetched, posted, sent>>

\* A variant that adds a cumulative flag; C9 as amended rejects it.
StatusPayloadWithFlag(data) ==
    [d |-> data.date, t |-> data.time, v1 |-> data.E_TODAY, v2 |-> data.PAC_W,
     c1 |-> 1]

\* A variant with energy and power exchanged; C10 rejects it.
StatusPayloadSwapped(data) ==
    [d |-> data.date, t |-> data.time, v1 |-> data.PAC_W, v2 |-> data.E_TODAY]

\* payload = {'d': ..., 't': ..., 'v1': ..., 'v2': ...}
StatusPayload(data) ==
    [d |-> data.date, t |-> data.time, v1 |-> data.E_TODAY, v2 |-> data.PAC_W]

\* A variant whose POST is not inside try/except: a failed upload ends the
\* process; C4 rejects it.
UploadRaises ==
    /\ pc = "upload"
    /\ posted' = IF attempts = 0
                   THEN Append(posted, StatusPayload(inverter_data))
                   ELSE posted
    /\ \E o \in Outcomes :
         IF will_retry("POST", o, attempts)
           THEN /\ attempts' = attempts + 1
                /\ sent' = Request("POST", "addstatus", o, FALSE)
                /\ UNCHANGED pc
           ELSE /\ attempts' = 0
                /\ sent' = Request("POST", "addstatus", o, TRUE)
                /\ pc' = IF outcome_class("POST", o) = "ok" THEN "sleep" ELSE "crash"
    /\ UNCHANGED <<now, today, arg_interval, ip,
                   request_interval, system_name, db, response, inverter_data,
                   fetched, written>>

\* One transport attempt of pvoutput_session.post(addstatus.jsp,
\* data=payload) and, when it is the last, the except Exception around it.
\* The payload is recorded when the request is first issued.
Upload ==
    /\ pc = "upload"
    /\ posted' = IF attempts = 0
                   THEN Append(posted, StatusPayload(inverter_data))
                   ELSE posted
    /\ \E o \in Outcomes :
         IF will_retry("POST", o, attempts)
           THEN /\ attempts' = attempts + 1
                /\ sent' = Request("POST", "addstatus", o, FALSE)
                /\ UNCHANGED pc
           ELSE /\ attempts' = 0
                /\ sent' = Request("POST", "addstatus", o, TRUE)
                /\ pc' = "sleep"
    /\ UNCHANGED <<now, today, arg_interval, ip,
                   request_interval, system_name, db, response, inverter_data,
                   fetched, written>>

\* The POST is given no timeout: when PVOutput accepts the connection and
\* never answers, post() never returns.
UploadBlocks ==
    /\ pc = "upload"
    /\ posted' = IF attempts = 0
                   THEN Append(posted, StatusPayload(inverter_data))
                   ELSE posted
    /\ pc' = "blocked"
    /\ UNCHANGED <<now, today, arg_interval, ip,
                   request_interval, system_name, db, attempts, response,
                   inverter_data, fetched, written, sent>>

\* time.sleep(request_interval) at the end of a polling cycle.
Sleep ==
    /\ pc = "sleep"
    /\ Elapse(request_interval)
    /\ pc' = "gate"
    /\ sent' = NoRequest
    /\ UNCHANGED <<arg_interval, ip, request_interval,
                   system_name, db, attempts, response, inverter_data, fetched,
                   written, posted>>

\* A variant of the idle loop's head that never sees daylight; C15 rejects
\* it.
IdleGateStays ==
    /\ pc = "idle_gate"
    /\ pc' = "idle_sleep"
    /\ UNCHANGED <<now, today, arg_interval, ip,
                   request_interval, system_name, db, attempts, response,
                   inverter_data, fetched, written, posted, sent>>

\* while daylight_hours() == False: the head of the idle loop; when it
\* ends, the outer while True starts over at the polling loop's head.
IdleGate ==
    /\ pc = "idle_gate"
    /\ pc' = IF daylight_hours(now, today) THEN "gate" ELSE "idle_sleep"
    /\ UNCHANGED <<now, today, arg_interval, ip,
                   request_interval, system_name, db, attempts, response,
                   inverter_data, fetched, written, posted, sent>>

\* time.sleep(request_interval) in the idle loop.
IdleSleep ==
    /\ pc = "idle_sleep"
    /\ Elapse(request_interval)
    /\ pc' = "idle_gate"
    /\ UNCHANGED <<arg_interval, ip, request_interval,
                   system_name, db, attempts, response, inverter_data, fetched,
                   written, posted, sent>>

Next ==
    \/ Lookup
    \/ SetIp
    \/ GetSystem
    \/ CreateDb
    \/ Gate
    \/ Fetch
    \/ Parse
    \/ Record
    \/ Upload
    \/ UploadBlocks
    \/ Sleep
    \/ IdleGate
    \/ IdleSleep

Spec == Init /\ [][Next]_vars

\* The script is one thread that runs whenever it can: a sleep returns when
\* its time is up, a gate check is a computation that ends, and the inverter
\* GET ends at the latest when its retries and timeouts are used up.
LiveSpec ==
    /\ Init
    /\ [][Next]_vars
    /\ WF_vars(Gate)
    /\ WF_vars(Fetch)
    /\ WF_vars(IdleGate)
    /\ WF_vars(IdleSleep)

(***************************************************************************)
(* The parser on its own: every energy text of a small grid                *)
(***************************************************************************)

WholeParts ==
    {<<"0">>, <<"1">>, <<"2">>, <<"4">>, <<"8">>, <<"1", "2">>, <<"1", "6">>}
FractionParts ==
    {<<"0">>, <<"1">>, <<"3">>, <<"5">>, <<"9">>, <<"0", "5">>, <<"1", "0">>,
     <<"1", "1">>, <<"7", "5">>, <<"9", "9">>}

EnergyTexts == {w \o <<".">> \o f : w \in WholeParts, f \in FractionParts}

\* A body whose power line is a negative number.
NegativePowerText == DeviceText(<<"-", "5">>, <<"4", ".", "3">>, StatusOK)

ParseTexts ==
    {DeviceText(<<"8", "1", "2">>, e, StatusOK) : e \in EnergyTexts}
      \cup MalformedTexts \cup {NegativePowerText}

\* The state right after a successful inverter GET, for each body.
InitParse ==
    /\ pc = "parse"
    /\ now = 120
    /\ today = 0
    /\ arg_interval = 0
    /\ ip = "config"
    /\ request_interval = 60
    /\ system_name = <<"P", "V">>
    /\ db = [exists |-> TRUE, rows |-> <<HeaderRow>>]
    /\ attempts = 0
    /\ response \in ParseTexts
    /\ inverter_data = NoData
    /\ fetched = "ok"
    /\ written = <<>>
    /\ posted = <<>>
    /\ sent = Request("GET", "inverter", Status(200), TRUE)

NextParse == Parse

ParseSpec == InitParse /\ [][NextParse]_vars

(***************************************************************************)
(* Properties                                                              *)
(***************************************************************************)

\* An attempt that ended without a 2xx/3xx response.
Failed(o) == o.kind \in {"connect_error", "read_error"} \/ o.status >= 400

\* The truncation of (num / 10^frac) x 1000 in exact decimal arithmetic.
ExactTimes1000(num, frac) == (num * 1000) \div Pow(10, frac)

\* The energy text of the body in `response` (line 11 counted from 0).
EnergyLine == split(response, "\n")[12]

\* C1: when the fetched payload is malformed, the parse failure does not end
\* the process: the cycle writes no row, posts no upload and goes to its
\* sleep.
C1_ParseFailureSkipsCycle ==
    [][(pc = "parse" /\ parse_inverter_data(response, today, now).exc # "none")
         => (pc' = "sleep" /\ db' = db /\ written' = <<>> /\ posted' = <<>>)]_vars

\* C2: a cycle whose fetch fails produces no reading, appends no row and
\* posts no upload; it sleeps request_interval and comes back to the gate,
\* which starts the next fetch while it is daylight.
C2_FetchFailureSkipsCycle ==
    /\ [](fetched = "failed" =>
            /\ pc \in {"sleep", "gate", "idle_gate", "idle_sleep"}
            /\ inverter_data = NoData
            /\ written = <<>>
            /\ posted = <<>>)
    /\ [][/\ (pc = "fetch" /\ sent'.done /\ Failed(sent'.last))
               => (pc' = "sleep" /\ fetched' = "failed" /\ db' = db)
          /\ (pc = "sleep" /\ fetched = "failed")
               => /\ pc' = "gate"
                  /\ db' = db
                  /\ request_interval > 0
                  /\ now' = (now + request_interval) % DayLen
          /\ (pc = "gate" /\ now > sun(today).sunrise /\ now < sun(today).sunset)
               => pc' = "fetch"]_vars

\* C2 witness: a failed fetch has been slept on and the gate is next.
C2_Witness == pc = "gate" /\ fetched = "failed"

\* C3: a failed log write is swallowed: the same reading is still uploaded
\* in that cycle, and once the POST returns the cycle sleeps and goes back to
\* the gate.
C3_LogFailureIsSwallowed ==
    [][/\ (pc = "record" /\ db' = db)
            => (pc' = "upload" /\ inverter_data' = inverter_data /\ written' = <<>>)
       /\ (pc = "upload" /\ written = <<>>)
            => /\ Len(posted') = 1
               /\ posted'[1].d = inverter_data.date
               /\ posted'[1].t = inverter_data.time
               /\ posted'[1].v1 = inverter_data.E_TODAY
               /\ posted'[1].v2 = inverter_data.PAC_W
               /\ pc' \in {"upload", "sleep", "blocked"}
               /\ sent'.done => pc' = "sleep"
       /\ (pc = "sleep" /\ written = <<>> /\ posted # <<>>) => pc' = "gate"]_vars

\* C3 witness: nothing was written in the cycle, the upload was posted and
\* the cycle reached its sleep.
C3_Witness == pc = "sleep" /\ fetched = "ok" /\ written = <<>> /\ Len(posted) = 1

\* C4: a failed status POST is swallowed: the cycle goes to its sleep, the
\* scheduler posts at most once per cycle, and the sleep leads to the gate.
C4_UploadFailureIsSwallowed ==
    /\ [](Len(posted) <= 1)
    /\ [][/\ (pc = "upload" /\ sent'.done /\ Failed(sent'.last))
               => (pc' = "sleep" /\ Len(posted') = 1)
          /\ (pc = "sleep" /\ posted # <<>>)
               => (pc' = "gate" /\ posted' = posted)]_vars

\* C4 witness: the POST ended in a 500 and the cycle is at its sleep.
C4_Witness ==
    /\ pc = "sleep"
    /\ sent.method = "POST" /\ sent.done /\ sent.last = Status(500)
    /\ Len(posted) = 1

\* C5: whenever the log file exists, its first line is the header and the
\* header occurs exactly once.
C5_HeaderFirstAndOnce ==
    db.exists =>
      /\ Len(db.rows) >= 1
      /\ db.rows[1].kind = "header"
      /\ Cardinality({i \in 1..Len(db.rows) : db.rows[i].kind = "header"}) = 1

\* C6: for an energy text I.F the watt-hours are the truncation of
\* I.0F x 1000 when int(F) < 10 and of I.F x 1000 otherwise.
C6_WattHoursAreExact ==
    (pc = "record" /\ EnergyLine \in EnergyTexts) =>
      LET parts == split(EnergyLine, ".")
          whole == parts[1]
          fract == parts[2]
      IN  inverter_data.E_TODAY =
            IF DigitsVal(fract) < 10
              THEN ExactTimes1000(DigitsVal(whole \o <<"0">> \o fract),
                                  Len(fract) + 1)
              ELSE ExactTimes1000(DigitsVal(whole \o fract), Len(fract))

\* C7: the gate reports daylight exactly when sunrise < now < sunset: not at
\* or before sunrise, not at or after sunset.
C7_DaylightStrictlyBetween ==
    [][/\ pc = "gate" =>
            /\ (now <= sun(today).sunrise => pc' = "idle_gate")
            /\ (now >= sun(today).sunset => pc' = "idle_gate")
            /\ (now > sun(today).sunrise /\ now < sun(today).sunset
                  => pc' = "fetch")
       /\ pc = "idle_gate" =>
            /\ (now <= sun(today).sunrise => pc' = "idle_sleep")
            /\ (now >= sun(today).sunset => pc' = "idle_sleep")
            /\ (now > sun(today).sunrise /\ now < sun(today).sunset
                  => pc' = "gate")]_vars

\* C7 witness: the gate was asked exactly at sunrise and sent the loop idle.
C7_Witness == pc = "idle_sleep" /\ now = sun(today).sunrise

\* C8: every request of a retry session is retried until `retries` retries
\* are used up when it ends in a listed status or a failed connection, and is
\* not retried on a 4xx status outside the list.
C8_EveryRequestRetries ==
    [][(pc \in {"getsystem", "fetch", "upload"} /\ pc' # "blocked") =>
         LET o == sent'.last
         IN  /\ (\/ o.kind = "status" /\ o.status \in status_forcelist
                 \/ o.kind = "connect_error")
                  => (sent'.done <=> attempts = retries)
             /\ (o.kind = "status" /\ o.status \in 400..499
                   /\ o.status \notin status_forcelist)
                  => sent'.done]_vars

\* C9: every posted payload carries a cumulative-flag field.
C9_PayloadHasCumulativeFlag ==
    \A i \in 1..Len(posted) : "c1" \in DOMAIN posted[i]

\* C9 as amended: every posted payload has exactly the fields d, t, v1 and
\* v2, and no cumulative flag.
C9_PayloadFields ==
    \A i \in 1..Len(posted) : DOMAIN posted[i] = {"d", "t", "v1", "v2"}

\* C9 witness: a payload has been posted.
C9_Witness == Len(posted) = 1 /\ pc = "sleep"

\* C10: the row appended and the payload posted in a cycle carry the same
\* reading: d, t, v1, v2 are the row's date, time, E_TODAY and PAC_W, the row
\* is the last line of the log, and energy 4.3 with power 812 gives v1 = 4030
\* and v2 = 812.
C10_RowAndPayloadAgree ==
    /\ \A i \in 1..Len(posted) :
         /\ \A j \in 1..Len(written) :
              /\ posted[i].d = written[j].cells[1]
              /\ posted[i].t = written[j].cells[2]
              /\ posted[i].v1 = written[j].cells[5]
              /\ posted[i].v2 = written[j].cells[4]
         /\ response = DeviceText(<<"8", "1", "2">>, <<"4", ".", "3">>, StatusOK)
              => (posted[i].v1 = 4030 /\ posted[i].v2 = 812)
    /\ \A j \in 1..Len(written) :
         /\ written[j].kind = "row"
         /\ db.rows[Len(db.rows)].kind = "row"
         /\ db.rows[Len(db.rows)].cells = written[j].cells

\* C10 witness: a row was written and the payload posted for energy 4.3.
C10_Witness ==
    /\ Len(written) = 1
    /\ Len(posted) = 1
    /\ posted[1].v1 = 4030
    /\ posted[1].v2 = 812

\* The positions of the polling scheduler: the polling loop and the idle
\* loop that waits for sunrise.
Polling == {"gate", "fetch", "parse", "record", "upload", "sleep", "blocked"}
AwaitingSunrise == {"idle_gate", "idle_sleep"}

\* C11: a failed location lookup, or no inverter address from the flag or
\* the configuration, ends the process with exit code 1: no request has been
\* made, the log file is untouched and the scheduler is never entered.
C11_ConfigErrorsExitBeforeIO ==
    /\ []((pc \in {"lookup", "set_ip"} \/ (pc = "exit1" /\ ip = "unbound"))
            => (sent = NoRequest /\ written = <<>> /\ posted = <<>>))
    /\ [][/\ pc = "lookup"
               => (pc' \in {"set_ip", "exit1"} /\ db' = db /\ sent' = NoRequest)
          /\ pc = "set_ip"
               => /\ pc' \in {"getsystem", "exit1"}
                  /\ (ip' = "unbound") <=> (pc' = "exit1")
                  /\ db' = db
                  /\ sent' = NoRequest
          /\ pc = "exit1" => FALSE]_vars

\* C11 witness: the process has exited with no address set and no request
\* made, the log file still absent.
C11_Witness == pc = "exit1" /\ ip = "unbound" /\ sent = NoRequest /\ ~db.exists

C13_GetSystemFailureUsesDefault ==
    [][/\ (pc = "getsystem" /\ sent'.done /\ Failed(sent'.last)
            /\ sent'.last # Status(401))
            => (pc' = "create_db" /\ request_interval' = DEFAULT_REQ_INTERVAL)
       /\ (pc = "create_db" /\ sent.done /\ Failed(sent.last))
            => (pc' = "gate" /\ db'.exists
                  /\ request_interval' = DEFAULT_REQ_INTERVAL)]_vars

\* C14: a cycle's fetch is entered only from the polling loop's gate, at a
\* time the gate reports daylight and with no time passing in between, and
\* requests go to the inverter only from there; a gate reporting no daylight
\* hands over to the idle loop, which makes no request, writes no row and
\* posts nothing, and which is left only when its own gate reports daylight.
C14_FetchOnlyAfterDaylightGate ==
    /\ [](pc \in AwaitingSunrise => (attempts = 0 /\ ~sent.done))
    /\ [][/\ (pc' = "fetch" /\ pc # "fetch")
               => /\ pc = "gate"
                  /\ daylight_hours(now, today)
                  /\ now' = now /\ today' = today
          /\ (sent' # sent /\ sent'.url = "inverter")
               => (pc = "fetch" /\ pc' \in Polling)
          /\ (pc = "gate" /\ ~daylight_hours(now, today)) => pc' = "idle_gate"
          /\ pc \in AwaitingSunrise
               => /\ db' = db /\ posted' = posted /\ written' = written
                  /\ sent' = sent
                  /\ pc' \in AwaitingSunrise \cup {"gate"}
                  /\ pc' = "gate" => (pc = "idle_gate" /\ now' = now
                                        /\ daylight_hours(now, today))]_vars

\* C14 witness: a completed cycle was followed by a gate that reported no
\* daylight, and the scheduler sleeps in the idle loop.
C14_Witness ==
    /\ pc = "idle_sleep"
    /\ fetched = "ok"
    /\ Len(posted) = 1
    /\ ~daylight_hours(now, today)

\* C15: the idle loop asks the gate again after each sleep of
\* request_interval, and when the daylight of a day lasts longer than one
\* sleep, a scheduler waiting for sunrise eventually gets to the polling loop
\* and sends a request to the inverter.
C15_IdleEventuallyPolls ==
    /\ [][pc = "idle_sleep"
            => (pc' = "idle_gate"
                  /\ now' = (now + request_interval) % DayLen)]_vars
    /\ (pc \in AwaitingSunrise
          /\ request_interval < sun(today).sunset - sun(today).sunrise)
         ~> (pc \in Polling /\ sent.url = "inverter")

\* C15 witness: after a night in the idle loop a request has gone to the
\* inverter on the next date.
C15_Witness ==
    /\ pc \in Polling
    /\ sent.url = "inverter"
    /\ today = 1
    /\ request_interval < sun(today).sunset - sun(today).sunrise

\* C16: every request has a timeout, so the scheduler is never inside a call
\* that does not return.
C16_EveryCallReturns == pc # "blocked"

\* C17: a cycle goes through fetch, parse, record, upload and sleep in that
\* order and skips none on the way to an upload; the only request in flight
\* is the one of the step the script is at; an upload is made only with the
\* reading parsed from this cycle's fetched body, and a cycle posts at most
\* one payload, a POST being sent again only when it never reached the
\* server.
C17_CycleStepsInOrder ==
    /\ [](/\ (pc \in {"record", "upload"} \/ posted # <<>>)
              => (/\ fetched = "ok"
                  /\ parse_inverter_data(response, inverter_data.date,
                                          inverter_data.time).exc = "none"
                  /\ inverter_data.PAC_W
                       = parse_inverter_data(response, inverter_data.date,
                                             inverter_data.time).data.PAC_W)
          /\ Len(posted) <= 1
          /\ (posted # <<>>)
               => pc \in {"upload", "blocked", "sleep", "gate", "idle_gate",
                          "idle_sleep"}
          /\ (sent # NoRequest /\ ~sent.done)
               => (\/ pc = "getsystem" /\ sent.url = "getsystem"
                   \/ pc = "fetch" /\ sent.url = "inverter"
                   \/ pc \in {"upload", "blocked"} /\ sent.url = "addstatus"))
    /\ [][/\ (pc = "fetch") => (pc' \in {"fetch", "parse", "sleep"})
          /\ (pc = "parse") => (pc' \in {"record", "crash"})
          /\ (pc = "record") => (pc' = "upload")
          /\ (pc = "upload") => (pc' \in {"upload", "sleep", "blocked"})
          /\ (pc = "sleep") => (pc' = "gate")
          /\ (pc = "upload" /\ pc' = "upload")
               => (sent'.last.kind = "connect_error")
          /\ (pc = "upload" /\ attempts > 0)
               => (posted' = posted /\ sent.last.kind = "connect_error")]_vars

\* C17 witness: a cycle fetched, parsed, recorded and uploaded, its POST
\* was answered with 200, and it is at its sleep.
C17_Witness ==
    /\ pc = "sleep"
    /\ fetched = "ok"
    /\ Len(written) = 1
    /\ Len(posted) = 1
    /\ sent = Request("POST", "addstatus", Status(200), TRUE)

\* The power text of the body in `response` (line 10 counted from 0).
PowerLine == split(response, "\n")[11]

\* C18: every reading the parser returns has a power of zero or more, and a
\* body whose power line is a negative number yields no reading.
C18_PowerIsNonNegative ==
    /\ (inverter_data # NoData) => (inverter_data.PAC_W >= 0)
    /\ (pc = "record") => (PowerLine[1] # "-")

\* Two lines of the log are the same line.
SameRow(a, b) == a.kind = b.kind /\ (a.kind = "row" => a.cells = b.cells)

\* The data rows of a file, in file order.
DataRows(file) == SelectSeq(file.rows, LAMBDA r : r.kind = "row")

C20_CorrectionIsIdempotent ==
    (pc = "record" /\ EnergyLine \in EnergyTexts) =>
      LET once  == correct_E_Today(EnergyLine)
          twice == correct_E_Today(once.kwh)
          fract == split(EnergyLine, ".")[2]
      IN  /\ twice.exc = "none"
          /\ twice.kwh = once.kwh
          /\ twice.watts = inverter_data.E_TODAY
          /\ (Len(fract) = 2 /\ fract[1] = "0") => (once.kwh = EnergyLine)
          /\ (EnergyLine = <<"1", "2", ".", "0", "5">>)
               => (inverter_data.E_TODAY = 12050)

====
